---- MODULE Spec2Model ----
(***************************************************************************)
(* The retrying request executor of the AURA clinical client:             *)
(* fetchWithRetry(url, options, retries = 5, backoff = 1000).             *)
(*                                                                         *)
(* One logical call is a chain of async frames.  A frame issues fetch,     *)
(* awaits it, checks res.ok, awaits res.json(); whatever is thrown inside  *)
(* the try block lands in the frame's catch, which either awaits a timer   *)
(* and tail-calls the next frame with (retries - 1, backoff * 2), or       *)
(* rethrows.  The model has one step per await point.                      *)
(***************************************************************************)
EXTENDS Integers, Sequences, FiniteSets, TLC

VARIABLES
  call,   \* a logical call of fetchWithRetry (the one analyzeImage makes)
  peer,   \* a second logical call (the one generateMorph makes)
  app     \* the state of the App component

vars == <<call, peer, app>>

(* ---------------- bounds of the model ---------------- *)

\* largest explicit `retries` argument a caller passes
MaxRetriesArg == 2

(* ---------------- values ---------------- *)

\* an argument the caller leaves out
Undefined == -1

DefaultRetries == 5
DefaultBackoff == 1000

\* the two request descriptors the application builds (analyzeImage, generateMorph)
AnalyzeRequest ==
  [url |-> "gemini-2.5-flash-preview-09-2025:generateContent",
   options |-> [method |-> "POST", headers |-> "Content-Type: application/json",
                body |-> "diagnostic+image"]]

MorphRequest ==
  [url |-> "gemini-2.5-flash-image-preview:generateContent",
   options |-> [method |-> "POST", headers |-> "Content-Type: application/json",
                body |-> "morph+image"]]

Requests == {AnalyzeRequest, MorphRequest}

RetriesArgs == (0 .. MaxRetriesArg) \cup {Undefined}
BackoffArgs == {0, 100, Undefined}

\* what the transport can answer to one attempt
Statuses == {200, 503}
Bodies == {"{\"v\":1}", "{\"v\":2}", "<html>"}

NoBody == ""
NetworkFailure == [net |-> TRUE, status |-> 0, body |-> NoBody]
Responses == [net : {FALSE}, status : Statuses, body : Bodies]

\* Response.ok: the status is in the 2xx range
Ok(res) == res.status >= 200 /\ res.status <= 299

\* Response.json(): JSON.parse of the body text
IsJson(body) == body \in {"{\"v\":1}", "{\"v\":2}"}

NoValue == [v |-> 0]

JsonParse(body) ==
  CASE body = "{\"v\":1}" -> [v |-> 1]
    [] body = "{\"v\":2}" -> [v |-> 2]
    [] OTHER -> NoValue

\* error objects; `attempt` stands for the identity of the object, which is
\* created afresh by the attempt that fails
NoError == [name |-> "none", message |-> "", attempt |-> 0]
TypeError(k) == [name |-> "TypeError", message |-> "Failed to fetch", attempt |-> k]

HttpMessage(status) ==
  CASE status = 200 -> "HTTP 200"
    [] status = 503 -> "HTTP 503"
    [] OTHER -> "HTTP ?"

HttpError(status, k) == [name |-> "Error", message |-> HttpMessage(status), attempt |-> k]
SyntaxError(k) == [name |-> "SyntaxError", message |-> "Unexpected token", attempt |-> k]

(* ---------------- the frame ---------------- *)

\* default parameter values of fetchWithRetry
Default(arg, dflt) == IF arg = Undefined THEN dflt ELSE arg

\* variant: every frame sleeps for its backoff before it issues the request
EnterWaitsFirst(c, url, options, retries, backoff) ==
  [c EXCEPT !.pc = "fetch",
            !.url = url, !.options = options,
            !.retries = retries, !.backoff = backoff,
            !.delays = Append(@, backoff),
            !.fetches = Append(@, [url |-> url, options |-> options]),
            !.trace = Append(Append(@, "wait"), "fetch")]

\* entering a frame: the parameters are bound and fetch(url, options) is issued
Enter(c, url, options, retries, backoff) ==
  [c EXCEPT !.pc = "fetch",
            !.url = url, !.options = options,
            !.retries = retries, !.backoff = backoff,
            !.fetches = Append(@, [url |-> url, options |-> options]),
            !.trace = Append(@, "fetch")]

\* variant: the budget test is retries >= 0
CatchOffByOne(c, err) ==
  IF c.retries >= 0
  THEN [c EXCEPT !.pc = "timer",
                 !.errs = Append(@, err),
                 !.delays = Append(@, c.backoff),
                 !.trace = Append(@, "wait")]
  ELSE [c EXCEPT !.pc = "thrown",
                 !.error = err,
                 !.trace = Append(@, "throw")]

\* variant: the budget test is retries > 1
CatchGivesUpEarly(c, err) ==
  IF c.retries > 1
  THEN [c EXCEPT !.pc = "timer",
                 !.errs = Append(@, err),
                 !.delays = Append(@, c.backoff),
                 !.trace = Append(@, "wait")]
  ELSE [c EXCEPT !.pc = "thrown",
                 !.error = err,
                 !.trace = Append(@, "throw")]

\* variant: the timer is awaited before the budget is tested
CatchWaitsBeforeThrow(c, err) ==
  IF c.retries > 0
  THEN [c EXCEPT !.pc = "timer",
                 !.errs = Append(@, err),
                 !.delays = Append(@, c.backoff),
                 !.trace = Append(@, "wait")]
  ELSE [c EXCEPT !.pc = "thrown",
                 !.error = err,
                 !.delays = Append(@, c.backoff),
                 !.trace = Append(Append(@, "wait"), "throw")]

\* variant: the outermost frame rethrows the error it caught itself
CatchThrowsFirst(c, err) ==
  IF c.retries > 0
  THEN [c EXCEPT !.pc = "timer",
                 !.errs = Append(@, err),
                 !.delays = Append(@, c.backoff),
                 !.trace = Append(@, "wait")]
  ELSE [c EXCEPT !.pc = "thrown",
                 !.error = IF c.errs = <<>> THEN err ELSE c.errs[1],
                 !.trace = Append(@, "throw")]

\* variant: with the budget used up the error is swallowed and the call
\* completes with no value
CatchSwallows(c, err) ==
  IF c.retries > 0
  THEN [c EXCEPT !.pc = "timer",
                 !.errs = Append(@, err),
                 !.delays = Append(@, c.backoff),
                 !.trace = Append(@, "wait")]
  ELSE [c EXCEPT !.pc = "returned",
                 !.value = NoValue,
                 !.trace = Append(@, "return")]

\* variant: the timer promise is not awaited, the next frame starts at once
CatchDoesNotAwaitTimer(c, err) ==
  IF c.retries > 0
  THEN Enter([c EXCEPT !.errs = Append(@, err),
                       !.delays = Append(@, c.backoff),
                       !.trace = Append(@, "wait")],
             c.url, c.options, c.retries - 1, c.backoff * 2)
  ELSE [c EXCEPT !.pc = "thrown",
                 !.error = err,
                 !.trace = Append(@, "throw")]

\* variant: the timer promise is never resolved
CatchTimerNeverResolves(c, err) ==
  IF c.retries > 0
  THEN [c EXCEPT !.pc = "stuck",
                 !.errs = Append(@, err),
                 !.delays = Append(@, c.backoff),
                 !.trace = Append(@, "wait")]
  ELSE [c EXCEPT !.pc = "thrown",
                 !.error = err,
                 !.trace = Append(@, "throw")]

\* catch (err): wait and retry while retries > 0, otherwise rethrow
Catch(c, err) ==
  IF c.retries > 0
  THEN [c EXCEPT !.pc = "timer",
                 !.errs = Append(@, err),
                 !.delays = Append(@, c.backoff),
                 !.trace = Append(@, "wait")]
  ELSE [c EXCEPT !.pc = "thrown",
                 !.error = err,
                 !.trace = Append(@, "throw")]

\* variant: the backoff is passed on without doubling
RetryFixedBackoff(c) == Enter(c, c.url, c.options, c.retries - 1, c.backoff)

\* variant: the retry is sent without the request body
RetryDropsBody(c) ==
  Enter(c, c.url, [c.options EXCEPT !.body = ""], c.retries - 1, c.backoff * 2)

\* variant: the budget is decreased by 2
RetryDecrementsTwice(c) == Enter(c, c.url, c.options, c.retries - 2, c.backoff * 2)

\* return fetchWithRetry(url, options, retries - 1, backoff * 2)
Retry(c) == Enter(c, c.url, c.options, c.retries - 1, c.backoff * 2)

\* `await fetch` rejected
OnFetchRejected(c) ==
  Catch([c EXCEPT !.transport = Append(@, NetworkFailure),
                  !.trace = Append(@, "rejected")],
        TypeError(Len(c.fetches)))

\* variant: the res.ok test is missing
OnFetchResolvedNoOkTest(c, res) ==
  [c EXCEPT !.transport = Append(@, res),
            !.trace = Append(@, "response"),
            !.pc = "json", !.res = res,
            !.decoded = Append(@, Len(c.fetches))]

\* `await fetch` resolved with res: the ok test, then res.json() is started
OnFetchResolved(c, res) ==
  LET d == [c EXCEPT !.transport = Append(@, res),
                     !.trace = Append(@, "response")]
  IN IF ~Ok(res)
     THEN Catch(d, HttpError(res.status, Len(c.fetches)))
     ELSE [d EXCEPT !.pc = "json", !.res = res,
                    !.decoded = Append(@, Len(c.fetches))]

\* variant: the decoded body is not returned
OnJsonSettledNoReturn(c) ==
  IF IsJson(c.res.body)
  THEN [c EXCEPT !.pc = "returned",
                 !.value = NoValue,
                 !.trace = Append(@, "return")]
  ELSE Catch([c EXCEPT !.trace = Append(@, "undecodable")],
             SyntaxError(Len(c.fetches)))

\* variant: the executor hands back the envelope already unwrapped
OnJsonSettledUnwraps(c) ==
  IF IsJson(c.res.body)
  THEN [c EXCEPT !.pc = "returned",
                 !.value = [v |-> JsonParse(c.res.body).v,
                            text |-> IF JsonParse(c.res.body).v = 1
                                     THEN "{\"auraScore\":750}" ELSE "undefined"],
                 !.trace = Append(@, "return")]
  ELSE Catch([c EXCEPT !.trace = Append(@, "undecodable")],
             SyntaxError(Len(c.fetches)))

\* `await res.json()` settled: return the decoded body, or land in catch
OnJsonSettled(c) ==
  IF IsJson(c.res.body)
  THEN [c EXCEPT !.pc = "returned",
                 !.value = JsonParse(c.res.body),
                 !.trace = Append(@, "return")]
  ELSE Catch([c EXCEPT !.trace = Append(@, "undecodable")],
             SyntaxError(Len(c.fetches)))

(* ---------------- the App component ---------------- *)

\* the two versions of the App component in the repository
Variants == {"part_000", "App.jsx"}

Null == "null"
Photo == "data:image/png;base64,photo"

\* an `await fetch` made without fetchWithRetry (App.jsx, analyzeImage)
NoDirect == [pc |-> "idle", res |-> NetworkFailure]

\* the component after mounting; key tells whether the Gemini API key is
\* configured in the environment
AppStart(variant, key) ==
  [variant |-> variant, apiKey |-> key,
   activeTab |-> "overview",
   image |-> Null, error |-> Null,
   isAnalyzing |-> FALSE, isMorphing |-> FALSE,
   analysisResult |-> Null, morphUrl |-> Null,
   showLeadForm |-> FALSE,
   isLoggedIn |-> FALSE,
   isCameraActive |-> FALSE, streamRef |-> Null,
   \* pending work: getUserMedia calls, FileReader reads, 1500 ms timers
   cameraPending |-> 0, reading |-> FALSE, leadTimers |-> 0,
   direct |-> NoDirect,
   \* the provider login
   showLogin |-> FALSE, loginKey |-> "", loginError |-> "",
   \* Firebase: db is configured, user is set by onAuthStateChanged
   db |-> TRUE, user |-> Null,
   \* the lead form
   leadName |-> "", leadEmail |-> "",
   leadSubmitted |-> FALSE, isSavingLead |-> FALSE,
   \* addDoc calls under way, started in this session and in earlier ones,
   \* and the lead documents written for this session
   savesPending |-> 0, staleSaves |-> 0, leadDocs |-> 0,
   \* media streams acquired whose tracks have not been stopped
   liveStreams |-> 0]

AppInit == AppStart("part_000", TRUE)

\* the tab buttons on screen
Categories(a) ==
  (IF a.variant = "part_000" THEN {"overview", "vision", "bio"}
                             ELSE {"overview", "vision"})
  \cup (IF a.isLoggedIn THEN {"enterprise"} ELSE {})

\* the lead capture modal covers the page
LeadModalOpen(a) ==
  IF a.variant = "part_000" THEN a.showLeadForm /\ a.analysisResult # Null
                            ELSE a.showLeadForm

\* a modal (z-50, z-100) lies over the page (z-40 and below)
ModalOpen(a) == a.showLogin \/ LeadModalOpen(a)

\* Vision Lab with neither photo nor camera: the camera and upload buttons
CaptureChoiceShown(a) ==
  /\ ~ModalOpen(a)
  /\ a.activeTab = "vision" /\ a.image = Null /\ ~a.isCameraActive

\* Vision Lab with the live camera view
CameraViewShown(a) ==
  /\ ~ModalOpen(a)
  /\ a.activeTab = "vision" /\ a.isCameraActive

\* Vision Lab with the photo: reset, analyze and morph buttons
PhotoViewShown(a) ==
  /\ ~ModalOpen(a)
  /\ a.activeTab = "vision" /\ a.image # Null /\ ~a.isCameraActive

\* a new session begins: the addDoc calls still under way belong to the
\* session that ends here
resetBiometricSession(a) ==
  [a EXCEPT !.image = Null, !.analysisResult = Null, !.morphUrl = Null,
            !.leadName = "", !.leadEmail = "", !.leadSubmitted = FALSE,
            !.showLeadForm = FALSE, !.error = Null,
            !.staleSaves = @ + a.savesPending, !.savesPending = 0,
            !.leadDocs = 0]

\* the tracks of the stream held in streamRef, if any, are stopped
stopCamera(a) ==
  [a EXCEPT !.liveStreams = IF a.streamRef # Null THEN @ - 1 ELSE @,
            !.streamRef = Null, !.isCameraActive = FALSE]

\* useEffect on activeTab
TabEffect(a) == IF a.activeTab # "vision" THEN stopCamera(a) ELSE a

\* the vendor envelope: payload 1 carries a candidate with a text part (a
\* JSON document) and an inline image part, payload 2 carries no candidate
RawText(data) == IF data.v = 1 THEN "{\"auraScore\":750}" ELSE "undefined"
InlineData(data) == IF data.v = 1 THEN "iVBORw0KGgo" ELSE "undefined"

\* JSON.parse(rawText.match(/\{[\s\S]*\}/)[0])
ParsedResult(rawText) == IF rawText = "{\"auraScore\":750}" THEN "auraScore:750" ELSE Null

MorphDataUrl(b64Img) == IF b64Img = "iVBORw0KGgo" THEN "data:image/png;base64,iVBORw0KGgo" ELSE Null

(* ---------------- the state machine ---------------- *)

Idle ==
  [pc |-> "idle",
   url |-> "", options |-> AnalyzeRequest.options,
   retries |-> 0, backoff |-> 0,
   res |-> NetworkFailure,
   errs |-> <<>>, error |-> NoError, value |-> NoValue,
   \* what the caller passed
   request |-> AnalyzeRequest, maxRetries |-> 0, initialBackoffMs |-> 0,
   args |-> [retries |-> Undefined, backoff |-> Undefined],
   \* what the call did: requests handed to fetch, answers of the transport,
   \* timer delays, attempts whose body was decoded, order of events
   fetches |-> <<>>, transport |-> <<>>, delays |-> <<>>, decoded |-> <<>>,
   trace |-> <<>>]

\* variant: the default of `retries` is 3
InvokeDefaultThree(req, r, b) ==
  Enter([Idle EXCEPT !.request = req,
                     !.args = [retries |-> r, backoff |-> b],
                     !.maxRetries = Default(r, 3),
                     !.initialBackoffMs = Default(b, DefaultBackoff)],
        req.url, req.options,
        Default(r, 3), Default(b, DefaultBackoff))

\* a caller invokes fetchWithRetry(url, options, r, b); r and b may be left out
Invoke(req, r, b) ==
  Enter([Idle EXCEPT !.request = req,
                     !.args = [retries |-> r, backoff |-> b],
                     !.maxRetries = Default(r, DefaultRetries),
                     !.initialBackoffMs = Default(b, DefaultBackoff)],
        req.url, req.options,
        Default(r, DefaultRetries), Default(b, DefaultBackoff))

Init ==
  /\ call = Idle
  /\ peer = Idle
  /\ app = AppInit

\* a caller starts a logical call (the previous one, if any, has ended)
Call ==
  /\ call.pc \in {"idle", "returned", "thrown"}
  /\ \E req \in Requests, r \in RetriesArgs, b \in BackoffArgs :
       call' = Invoke(req, r, b)
  /\ UNCHANGED <<peer, app>>

FetchRejects ==
  /\ call.pc = "fetch"
  /\ call' = OnFetchRejected(call)
  /\ UNCHANGED <<peer, app>>

FetchResolves ==
  /\ call.pc = "fetch"
  /\ \E res \in Responses : call' = OnFetchResolved(call, res)
  /\ UNCHANGED <<peer, app>>

JsonSettles ==
  /\ call.pc = "json"
  /\ call' = OnJsonSettled(call)
  /\ UNCHANGED <<peer, app>>

TimerFires ==
  /\ call.pc = "timer"
  /\ call' = Retry(call)
  /\ UNCHANGED <<peer, app>>

Next == Call \/ FetchRejects \/ FetchResolves \/ JsonSettles \/ TimerFires

Spec == Init /\ [][Next]_vars

\* fetches settle and timers fire
FairSpec ==
  /\ Spec
  /\ WF_vars(FetchRejects \/ FetchResolves)
  /\ WF_vars(JsonSettles)
  /\ WF_vars(TimerFires)

(* ---------------- two logical calls at once ---------------- *)

\* largest `retries` argument passed when two calls run side by side
MaxPairRetries == 1

PairRetriesArgs == 0 .. MaxPairRetries
\* the first call passes a backoff of its own, the second one leaves it out
CallBackoffArgs == {100}
PeerBackoffArgs == {Undefined}

\* variant: the backoff lives in one module-level variable that every call
\* doubles
PairRetrySharedBackoff(me, other) ==
  Enter(me, me.url, me.options, me.retries - 1,
        IF other.pc \in {"fetch", "json", "timer"} /\ other.backoff > me.backoff
        THEN other.backoff * 2 ELSE me.backoff * 2)

\* the recursive call of one logical call while another one (other) is under
\* way: retries and backoff are parameters of the frame, nothing is shared
PairRetry(me, other) == Retry(me)

Starts(c, next, req, backoffs) ==
  /\ c.pc \in {"idle", "returned", "thrown"}
  /\ \E r \in PairRetriesArgs, b \in backoffs : next = Invoke(req, r, b)

Rejects(c, next) ==
  /\ c.pc = "fetch"
  /\ next = OnFetchRejected(c)

Resolves(c, next) ==
  /\ c.pc = "fetch"
  /\ \E res \in Responses : next = OnFetchResolved(c, res)

Settles(c, next) ==
  /\ c.pc = "json"
  /\ next = OnJsonSettled(c)

Fires(c, next, other) ==
  /\ c.pc = "timer"
  /\ next = PairRetry(c, other)

CallStarts == Starts(call, call', AnalyzeRequest, CallBackoffArgs) /\ UNCHANGED <<peer, app>>
CallFetchRejects == Rejects(call, call') /\ UNCHANGED <<peer, app>>
CallFetchResolves == Resolves(call, call') /\ UNCHANGED <<peer, app>>
CallJsonSettles == Settles(call, call') /\ UNCHANGED <<peer, app>>
CallTimerFires == Fires(call, call', peer) /\ UNCHANGED <<peer, app>>

PeerStarts == Starts(peer, peer', MorphRequest, PeerBackoffArgs) /\ UNCHANGED <<call, app>>
PeerFetchRejects == Rejects(peer, peer') /\ UNCHANGED <<call, app>>
PeerFetchResolves == Resolves(peer, peer') /\ UNCHANGED <<call, app>>
PeerJsonSettles == Settles(peer, peer') /\ UNCHANGED <<call, app>>
PeerTimerFires == Fires(peer, peer', call) /\ UNCHANGED <<call, app>>

NextPair ==
  \/ CallStarts \/ CallFetchRejects \/ CallFetchResolves
  \/ CallJsonSettles \/ CallTimerFires
  \/ PeerStarts \/ PeerFetchRejects \/ PeerFetchResolves
  \/ PeerJsonSettles \/ PeerTimerFires

SpecPair == Init /\ [][NextPair]_vars

(* ---------------- the App component at work ---------------- *)

\* getUserMedia calls and 1500 ms timers that may be pending at once
MaxCameraPending == 1
MaxLeadTimers == 1

\* media streams the device hands out before one of them is stopped
MaxLiveStreams == 2

\* what the component keeps of a logical call: the frame, the requests it
\* issued and the delays it waited, but no record of the answers it has
\* finished with
Forget(c) ==
  [c EXCEPT !.transport = <<>>, !.errs = <<>>, !.trace = <<>>, !.decoded = <<>>,
            !.res = IF c.pc = "json" THEN @ ELSE NetworkFailure,
            !.error = IF c.pc = "thrown" THEN @ ELSE NoError]

InitApp ==
  /\ call = Idle
  /\ peer = Idle
  /\ \E v \in Variants, k \in BOOLEAN : app = AppStart(v, k)

\* setActiveTab(t), followed by the effect when the tab has changed
SetTab(a, t) ==
  LET b == [a EXCEPT !.activeTab = t]
  IN IF t # a.activeTab THEN TabEffect(b) ELSE b

SelectTab ==
  /\ ~ModalOpen(app)
  /\ \E t \in Categories(app) :
       app' = SetTab([app EXCEPT !.morphUrl = IF app.variant = "part_000" THEN Null ELSE @], t)
  /\ UNCHANGED <<call, peer>>

\* the Authenticate button with the provider key typed in
Authenticate ==
  /\ ~ModalOpen(app)
  /\ ~app.isLoggedIn
  /\ app' = SetTab([app EXCEPT !.isLoggedIn = TRUE], "enterprise")
  /\ UNCHANGED <<call, peer>>

\* variant: App.jsx, too, leaves the tab where it is
logoutKeepsTab(a) == [a EXCEPT !.isLoggedIn = FALSE]

\* onClick of the Logout button
logout(a) ==
  IF a.variant = "part_000"
  THEN [a EXCEPT !.isLoggedIn = FALSE]
  ELSE SetTab([a EXCEPT !.isLoggedIn = FALSE], "overview")

Logout ==
  /\ ~ModalOpen(app)
  /\ app.isLoggedIn
  /\ app' = logout(app)
  /\ UNCHANGED <<call, peer>>

\* the reset button on the photo
ResetSession ==
  /\ PhotoViewShown(app)
  /\ app' = resetBiometricSession(app)
  /\ UNCHANGED <<call, peer>>

CameraErrorMessage(a) ==
  IF a.variant = "part_000" THEN "Hardware Locked. Check browser permissions."
                            ELSE "Camera Access Denied. Check browser settings."

\* startCamera up to `await getUserMedia`, with at most `limit` calls of
\* getUserMedia pending
StartsCamera(limit) ==
  /\ CaptureChoiceShown(app)
  /\ app.cameraPending < limit
  /\ app' = [stopCamera(resetBiometricSession(app)) EXCEPT
               !.error = Null, !.cameraPending = @ + 1]

StartCamera == StartsCamera(MaxCameraPending) /\ UNCHANGED <<call, peer>>

\* getUserMedia resolves with a new stream
CameraGranted ==
  /\ app.cameraPending > 0
  /\ app.liveStreams < MaxLiveStreams
  /\ app' = [app EXCEPT !.streamRef = "stream", !.isCameraActive = TRUE,
                        !.liveStreams = @ + 1,
                        !.cameraPending = @ - 1]
  /\ UNCHANGED <<call, peer>>

CameraDenied ==
  /\ app.cameraPending > 0
  /\ app' = [app EXCEPT !.error = CameraErrorMessage(app), !.isCameraActive = FALSE,
                        !.cameraPending = @ - 1]
  /\ UNCHANGED <<call, peer>>

StopCameraButton ==
  /\ CameraViewShown(app)
  /\ app' = stopCamera(app)
  /\ UNCHANGED <<call, peer>>

CapturePhoto ==
  /\ CameraViewShown(app)
  /\ app.variant = "part_000" => app.streamRef # Null
  /\ app' = stopCamera([app EXCEPT !.image = Photo])
  /\ UNCHANGED <<call, peer>>

\* the file input: part_000 resets the session first, App.jsx does not
UploadFile ==
  /\ CaptureChoiceShown(app)
  /\ ~app.reading
  /\ app' = [(IF app.variant = "part_000" THEN resetBiometricSession(app) ELSE app)
               EXCEPT !.reading = TRUE]
  /\ UNCHANGED <<call, peer>>

FileLoaded ==
  /\ app.reading
  /\ app' = [app EXCEPT !.image = Photo, !.reading = FALSE]
  /\ UNCHANGED <<call, peer>>

\* setTimeout(() => setShowLeadForm(true), 1500)
LeadTimerFires ==
  /\ app.leadTimers > 0
  /\ app' = [app EXCEPT !.showLeadForm = TRUE, !.leadTimers = @ - 1]
  /\ UNCHANGED <<call, peer>>

AnalyzeBusy == "AI Engine busy. Please retry."
MorphBusy == "Identity Engine busy."
DirectBusy == "AI Engine Busy."

\* errors raised by the callers while they unwrap the payload
UnwrapError == [name |-> "TypeError", message |-> "rawText is undefined", attempt |-> 0]
FormatError == [name |-> "Error", message |-> "Format error", attempt |-> 0]
HandshakeTimeout == [name |-> "Error", message |-> "Handshake Timeout", attempt |-> 0]

\* variant: the message of the underlying error is shown
AnalyzeCatchShowsError(a, err) == [a EXCEPT !.error = err.message, !.isAnalyzing = FALSE]

\* analyzeImage: catch (err) { setError(...) } finally { setIsAnalyzing(false) }
AnalyzeCatch(a, err) == [a EXCEPT !.error = AnalyzeBusy, !.isAnalyzing = FALSE]

MorphCatch(a, err) == [a EXCEPT !.error = MorphBusy, !.isMorphing = FALSE]

DirectCatch(a, err) ==
  [a EXCEPT !.error = DirectBusy, !.isAnalyzing = FALSE, !.direct = NoDirect]

\* analyzeImage after `await fetchWithRetry` has returned data
AnalyzeUnwrap(a, data) ==
  LET rawText == RawText(data)
  IN IF rawText = "undefined" THEN AnalyzeCatch(a, UnwrapError)
     ELSE IF ParsedResult(rawText) = Null THEN AnalyzeCatch(a, FormatError)
     ELSE [a EXCEPT !.analysisResult = ParsedResult(rawText),
                    !.leadTimers = @ + 1,
                    !.isAnalyzing = FALSE]

\* generateMorph after `await fetchWithRetry` has returned data
MorphUnwrap(a, data) ==
  LET b64Img == InlineData(data)
  IN IF b64Img = "undefined" THEN MorphCatch(a, HandshakeTimeout)
     ELSE [a EXCEPT !.morphUrl = MorphDataUrl(b64Img), !.isMorphing = FALSE]

\* App.jsx, analyzeImage after `await res.json()` has given data
DirectUnwrap(a, data) ==
  LET rawText == RawText(data)
  IN IF rawText = "undefined" \/ ParsedResult(rawText) = Null
     THEN DirectCatch(a, UnwrapError)
     ELSE [a EXCEPT !.analysisResult = ParsedResult(rawText),
                    !.leadTimers = @ + 1,
                    !.isAnalyzing = FALSE,
                    !.direct = NoDirect]

\* variant: the retry is given up when the session has been reset meanwhile
AppRetryUnlessReset(c, a) ==
  IF a.image = Null
  THEN [c EXCEPT !.pc = "thrown",
                 !.error = [name |-> "AbortError", message |-> "aborted",
                            attempt |-> Len(c.fetches)]]
  ELSE Retry(c)

\* the recursive call inside the component: it is given no signal and looks
\* at no state of the component
AppRetry(c, a) == Retry(c)

\* analyzeImage of part_000 up to `await fetchWithRetry(...)`
AnalyzeImage ==
  /\ app.variant = "part_000"
  /\ PhotoViewShown(app)
  /\ app.analysisResult = Null /\ ~app.isAnalyzing
  /\ app.leadTimers < MaxLeadTimers
  /\ IF ~app.apiKey
     THEN /\ app' = [app EXCEPT !.error = "AI Service Disconnected. Check Vercel Env Vars."]
          /\ UNCHANGED <<call, peer>>
     ELSE /\ app' = [app EXCEPT !.isAnalyzing = TRUE, !.error = Null]
          /\ call' = Forget(Invoke(AnalyzeRequest, Undefined, Undefined))
          /\ UNCHANGED peer

AnalyzeFetchRejects ==
  /\ call.pc = "fetch"
  /\ call' = Forget(OnFetchRejected(call))
  /\ UNCHANGED <<peer, app>>

AnalyzeFetchResolves ==
  /\ call.pc = "fetch"
  /\ \E res \in Responses : call' = Forget(OnFetchResolved(call, res))
  /\ UNCHANGED <<peer, app>>

AnalyzeJsonSettles ==
  /\ call.pc = "json"
  /\ call' = Forget(OnJsonSettled(call))
  /\ UNCHANGED <<peer, app>>

AnalyzeTimerFires ==
  /\ call.pc = "timer"
  /\ call' = Forget(AppRetry(call, app))
  /\ UNCHANGED <<peer, app>>

\* analyzeImage resumes after `await fetchWithRetry(...)`
AnalyzeResumes ==
  /\ call.pc \in {"returned", "thrown"}
  /\ app' = IF call.pc = "thrown" THEN AnalyzeCatch(app, call.error)
                                  ELSE AnalyzeUnwrap(app, call.value)
  /\ call' = Idle
  /\ UNCHANGED peer

\* generateMorph up to `await fetchWithRetry(...)`
GenerateMorph ==
  /\ app.variant = "part_000"
  /\ PhotoViewShown(app)
  /\ app.analysisResult # Null /\ app.morphUrl = Null /\ ~app.isMorphing
  /\ app.apiKey
  /\ app' = [app EXCEPT !.isMorphing = TRUE, !.error = Null]
  /\ peer' = Forget(Invoke(MorphRequest, Undefined, Undefined))
  /\ UNCHANGED call

MorphFetchRejects ==
  /\ peer.pc = "fetch"
  /\ peer' = Forget(OnFetchRejected(peer))
  /\ UNCHANGED <<call, app>>

MorphFetchResolves ==
  /\ peer.pc = "fetch"
  /\ \E res \in Responses : peer' = Forget(OnFetchResolved(peer, res))
  /\ UNCHANGED <<call, app>>

MorphJsonSettles ==
  /\ peer.pc = "json"
  /\ peer' = Forget(OnJsonSettled(peer))
  /\ UNCHANGED <<call, app>>

MorphTimerFires ==
  /\ peer.pc = "timer"
  /\ peer' = Forget(AppRetry(peer, app))
  /\ UNCHANGED <<call, app>>

MorphResumes ==
  /\ peer.pc \in {"returned", "thrown"}
  /\ app' = IF peer.pc = "thrown" THEN MorphCatch(app, peer.error)
                                  ELSE MorphUnwrap(app, peer.value)
  /\ peer' = Idle
  /\ UNCHANGED call

\* analyzeImage of App.jsx up to `await fetch(...)`
DirectAnalyzeImage ==
  /\ app.variant = "App.jsx"
  /\ PhotoViewShown(app)
  /\ app.analysisResult = Null /\ ~app.isAnalyzing
  /\ app.leadTimers < MaxLeadTimers
  /\ app' = IF ~app.apiKey
            THEN [app EXCEPT !.error = "AI Key Missing. Configure VITE_GEMINI_API_KEY in Vercel."]
            ELSE [app EXCEPT !.isAnalyzing = TRUE, !.error = Null,
                             !.direct = [pc |-> "fetch", res |-> NetworkFailure]]
  /\ UNCHANGED <<call, peer>>

DirectFetchRejects ==
  /\ app.direct.pc = "fetch"
  /\ app' = DirectCatch(app, TypeError(1))
  /\ UNCHANGED <<call, peer>>

\* no res.ok test: res.json() is started whatever the status
DirectFetchResolves ==
  /\ app.direct.pc = "fetch"
  /\ \E res \in Responses : app' = [app EXCEPT !.direct = [pc |-> "json", res |-> res]]
  /\ UNCHANGED <<call, peer>>

DirectJsonSettles ==
  /\ app.direct.pc = "json"
  /\ app' = IF IsJson(app.direct.res.body)
            THEN DirectUnwrap(app, JsonParse(app.direct.res.body))
            ELSE DirectCatch(app, SyntaxError(1))
  /\ UNCHANGED <<call, peer>>

NextApp ==
  \/ SelectTab \/ Authenticate \/ Logout \/ ResetSession
  \/ StartCamera \/ CameraGranted \/ CameraDenied \/ StopCameraButton \/ CapturePhoto
  \/ UploadFile \/ FileLoaded \/ LeadTimerFires
  \/ AnalyzeImage \/ AnalyzeFetchRejects \/ AnalyzeFetchResolves
  \/ AnalyzeJsonSettles \/ AnalyzeTimerFires \/ AnalyzeResumes
  \/ GenerateMorph \/ MorphFetchRejects \/ MorphFetchResolves
  \/ MorphJsonSettles \/ MorphTimerFires \/ MorphResumes
  \/ DirectAnalyzeImage \/ DirectFetchRejects \/ DirectFetchResolves
  \/ DirectJsonSettles

SpecApp == InitApp /\ [][NextApp]_vars

(* ---------------- camera streams, provider login, lead form ---------------- *)

\* getUserMedia calls pending at once, addDoc calls under way at once
MaxStarts == 2
MaxSaves == 2

InitUi ==
  /\ call = Idle
  /\ peer = Idle
  /\ \E v \in Variants : app = AppStart(v, TRUE)

\* the camera button, pressed again while getUserMedia is pending
PressStartCamera == StartsCamera(MaxStarts) /\ UNCHANGED <<call, peer>>

NextCamera ==
  \/ SelectTab \/ ResetSession
  \/ PressStartCamera \/ CameraGranted \/ CameraDenied
  \/ StopCameraButton \/ CapturePhoto
  \/ UploadFile \/ FileLoaded

SpecCamera == InitUi /\ [][NextCamera]_vars

DEMO_PROVIDER_KEY == "AURA-2026"

\* what is typed into the key field
LoginKeys == {"aura-2026", "AURA-2025"}

\* String.prototype.toUpperCase on the keys above
toUpperCase(k) == IF k = "aura-2026" THEN "AURA-2026" ELSE k

\* the Provider Login button
ShowLogin ==
  /\ ~ModalOpen(app)
  /\ ~app.isLoggedIn
  /\ app' = [app EXCEPT !.showLogin = TRUE]
  /\ UNCHANGED <<call, peer>>

TypeLoginKey ==
  /\ app.showLogin
  /\ \E k \in LoginKeys : app' = [app EXCEPT !.loginKey = k]
  /\ UNCHANGED <<call, peer>>

\* variant: every key that is not empty is accepted
authenticateAnyKey(a) ==
  IF a.loginKey # ""
  THEN SetTab([a EXCEPT !.isLoggedIn = TRUE, !.showLogin = FALSE], "enterprise")
  ELSE a

\* onClick of the Authenticate button
authenticate(a) ==
  IF toUpperCase(a.loginKey) = DEMO_PROVIDER_KEY
  THEN SetTab([a EXCEPT !.isLoggedIn = TRUE, !.showLogin = FALSE], "enterprise")
  ELSE IF a.variant = "part_000" THEN [a EXCEPT !.loginError = "Invalid"] ELSE a

PressAuthenticate ==
  /\ app.showLogin
  /\ app' = authenticate(app)
  /\ UNCHANGED <<call, peer>>

CancelLogin ==
  /\ app.showLogin
  /\ app' = [app EXCEPT !.showLogin = FALSE]
  /\ UNCHANGED <<call, peer>>

NextLogin ==
  \/ SelectTab \/ ShowLogin \/ TypeLoginKey \/ PressAuthenticate
  \/ CancelLogin \/ Logout
  \/ ResetSession \/ UploadFile \/ FileLoaded
  \/ StartCamera \/ CameraGranted \/ CameraDenied
  \/ StopCameraButton \/ CapturePhoto

SpecLogin == InitUi /\ [][NextLogin]_vars

\* onAuthStateChanged(auth, setUser) after the anonymous sign-in
AuthStateChanged ==
  /\ app.db
  /\ app.user = Null
  /\ app' = [app EXCEPT !.user = "uid"]
  /\ UNCHANGED <<call, peer>>

LeadNames == {"", "Ann"}
LeadEmails == {"", "ann@example.com"}

\* the form inside the lead capture modal
LeadFormShown(a) == LeadModalOpen(a) /\ ~a.showLogin /\ ~a.leadSubmitted

TypeLeadName ==
  /\ LeadFormShown(app)
  /\ \E n \in LeadNames : app' = [app EXCEPT !.leadName = n]
  /\ UNCHANGED <<call, peer>>

TypeLeadEmail ==
  /\ LeadFormShown(app)
  /\ \E e \in LeadEmails : app' = [app EXCEPT !.leadEmail = e]
  /\ UNCHANGED <<call, peer>>

\* the button that calls saveLead can be pressed
SaveButtonEnabled(a) ==
  /\ LeadFormShown(a)
  /\ a.variant = "part_000" =>
       ~a.isSavingLead /\ a.leadName # "" /\ a.leadEmail # ""

\* if (!user || !analysisResult || !db) return;  part_000 adds the two fields
saveLeadGuard(a) ==
  /\ a.user # Null /\ a.analysisResult # Null /\ a.db
  /\ a.variant = "part_000" => a.leadName # "" /\ a.leadEmail # ""

\* saveLead up to `await addDoc`
SaveLead ==
  /\ SaveButtonEnabled(app)
  /\ app.savesPending + app.staleSaves < MaxSaves
  /\ app' = IF saveLeadGuard(app)
            THEN [app EXCEPT !.isSavingLead = TRUE, !.savesPending = @ + 1]
            ELSE app
  /\ UNCHANGED <<call, peer>>

AddDocErrorMessage(a) ==
  IF a.variant = "part_000" THEN "Sync failed. Check Authorized Domains in Firebase."
                            ELSE "Database sync failed."

\* variant: the flag is not cleared when addDoc has failed
addDocRejectedKeepsBusy(a) == [a EXCEPT !.error = AddDocErrorMessage(a)]

\* saveLead: catch and finally
addDocRejected(a) ==
  [a EXCEPT !.error = AddDocErrorMessage(a), !.isSavingLead = FALSE]

\* an addDoc of this session (mine) or of an earlier one has written its
\* document: saveLead resumes
AddDocResolves ==
  /\ \E mine \in BOOLEAN :
       /\ IF mine THEN app.savesPending > 0 ELSE app.staleSaves > 0
       /\ app' = [app EXCEPT !.leadSubmitted = TRUE, !.isSavingLead = FALSE,
                             !.savesPending = IF mine THEN @ - 1 ELSE @,
                             !.staleSaves = IF mine THEN @ ELSE @ - 1,
                             !.leadDocs = IF mine THEN @ + 1 ELSE @]
  /\ UNCHANGED <<call, peer>>

AddDocRejects ==
  /\ \E mine \in BOOLEAN :
       /\ IF mine THEN app.savesPending > 0 ELSE app.staleSaves > 0
       /\ app' = [addDocRejected(app) EXCEPT
                    !.savesPending = IF mine THEN @ - 1 ELSE @,
                    !.staleSaves = IF mine THEN @ ELSE @ - 1]
  /\ UNCHANGED <<call, peer>>

\* the button shown once leadSubmitted is true
CloseLeadModal ==
  /\ LeadModalOpen(app) /\ ~app.showLogin /\ app.leadSubmitted
  /\ app' = [app EXCEPT !.showLeadForm = FALSE]
  /\ UNCHANGED <<call, peer>>

NextLead ==
  \/ SelectTab \/ ResetSession \/ UploadFile \/ FileLoaded
  \/ AnalyzeImage \/ AnalyzeFetchRejects \/ AnalyzeFetchResolves
  \/ AnalyzeJsonSettles \/ AnalyzeTimerFires \/ AnalyzeResumes
  \/ GenerateMorph \/ MorphFetchRejects \/ MorphFetchResolves
  \/ MorphJsonSettles \/ MorphTimerFires \/ MorphResumes
  \/ DirectAnalyzeImage \/ DirectFetchRejects \/ DirectFetchResolves
  \/ DirectJsonSettles
  \/ LeadTimerFires \/ AuthStateChanged
  \/ TypeLeadName \/ TypeLeadEmail
  \/ SaveLead \/ AddDocResolves \/ AddDocRejects \/ CloseLeadModal

SpecLead == InitUi /\ [][NextLead]_vars

\* every pending fetch, body, timer, addDoc settles, and the caller resumes
FairLead ==
  /\ SpecLead
  /\ WF_vars(AnalyzeFetchRejects \/ AnalyzeFetchResolves)
  /\ WF_vars(AnalyzeJsonSettles) /\ WF_vars(AnalyzeTimerFires)
  /\ WF_vars(AnalyzeResumes)
  /\ WF_vars(MorphFetchRejects \/ MorphFetchResolves)
  /\ WF_vars(MorphJsonSettles) /\ WF_vars(MorphTimerFires)
  /\ WF_vars(MorphResumes)
  /\ WF_vars(DirectFetchRejects \/ DirectFetchResolves)
  /\ WF_vars(DirectJsonSettles)
  /\ WF_vars(AddDocResolves \/ AddDocRejects)

(* ---------------- vocabulary of the properties ---------------- *)

RECURSIVE Pow2(_)
Pow2(n) == IF n <= 0 THEN 1 ELSE 2 * Pow2(n - 1)

Attempts == Len(call.fetches)
Answered == Len(call.transport)

\* an attempt that ended in a network error or a non-success status
TransportFailed(o) == o.net \/ o.status < 200 \/ o.status > 299

\* a 2xx answer whose body is / is not JSON text
Succeeded(o) == ~TransportFailed(o) /\ o.body \in {"{\"v\":1}", "{\"v\":2}"}
Undecodable(o) == ~TransportFailed(o) /\ o.body \notin {"{\"v\":1}", "{\"v\":2}"}

AllFailed == \A k \in 1 .. Answered : TransportFailed(call.transport[k])

\* the first j answers are transport failures and answer j + 1 is a full success
FailedThenSucceeded(j) ==
  /\ Answered = j + 1
  /\ \A k \in 1 .. j : TransportFailed(call.transport[k])
  /\ Succeeded(call.transport[j + 1])

DoublingDelays(n) == [k \in 1 .. n |-> call.initialBackoffMs * Pow2(k - 1)]

FailureEvents == {"rejected", "response", "undecodable"}

\* every wait stands right after the failure of an attempt and right before
\* the next fetch
WaitsOnlyBetweenAttempts ==
  \A i \in 1 .. Len(call.trace) :
    call.trace[i] = "wait" =>
      /\ i > 1
      /\ call.trace[i - 1] \in FailureEvents
      /\ i < Len(call.trace) => call.trace[i + 1] = "fetch"

\* the error object attempt k raises for the answer o
ErrorOf(o, k) ==
  IF o.net THEN [name |-> "TypeError", message |-> "Failed to fetch", attempt |-> k]
  ELSE IF o.status = 503 THEN [name |-> "Error", message |-> "HTTP 503", attempt |-> k]
  ELSE [name |-> "SyntaxError", message |-> "Unexpected token", attempt |-> k]

(* ---------------- properties ---------------- *)

\* C1: whatever the transport answers, one logical call with maxRetries = n
\* issues at most n + 1 fetch attempts.
C1_AtMostMaxRetriesPlusOneAttempts == Attempts <= call.maxRetries + 1

C1_Witness ==
  /\ call.pc = "thrown"
  /\ call.maxRetries = 2
  /\ Attempts = 3
  /\ call.transport[1].net
  /\ ~call.transport[2].net /\ call.transport[2].status = 503
  /\ Undecodable(call.transport[3])

\* C2: when every attempt fails with a transport error or a non-success
\* status, the call raises the terminal failure after exactly n + 1 attempts:
\* it never returns, it has thrown once answer n + 1 is in, and not before.
C2_PermanentFailureTakesAllAttempts ==
  AllFailed =>
    /\ call.pc # "returned"
    /\ call.pc = "thrown" => Attempts = call.maxRetries + 1
    /\ Answered = call.maxRetries + 1 => call.pc = "thrown"

C2_Witness ==
  /\ call.pc = "thrown"
  /\ AllFailed
  /\ call.maxRetries = 2
  /\ Attempts = 3
  /\ \E k \in 1 .. 3 : call.transport[k].net
  /\ \E k \in 1 .. 3 : ~call.transport[k].net

\* C3: a 2xx answer whose body cannot be decoded ends the call on that very
\* attempt: no wait and no further fetch follows it.
C3_DecodingErrorIsNotRetried ==
  \A k \in 1 .. Answered :
    Undecodable(call.transport[k]) =>
      /\ Attempts = k
      /\ Len(call.delays) = k - 1
      /\ call.pc \in {"json", "thrown"}

\* C4: the wait between attempt k and attempt k + 1 is
\* initialBackoffMs * 2^(k-1), for every k that occurs.
C4_DelaysDouble ==
  /\ call.delays = DoublingDelays(Len(call.delays))
  /\ Len(call.delays) \in {Attempts - 1, Attempts}
  /\ call.pc \in {"fetch", "json"} => Len(call.delays) = Attempts - 1

C4_Witness ==
  /\ call.initialBackoffMs = 100
  /\ call.delays = <<100, 200, 400, 800, 1600>>
  /\ Attempts = 6

\* C5: every attempt hands to fetch the url and the options the caller
\* supplied.
C5_SameRequestOnEveryAttempt ==
  \A k \in 1 .. Attempts :
    /\ call.fetches[k].url = call.request.url
    /\ call.fetches[k].options = call.request.options

C5_Witness ==
  /\ Attempts = 3
  /\ call.request = MorphRequest
  /\ call.pc = "returned"

\* C6: when the first attempt succeeds, exactly one fetch is made and no
\* backoff wait happens before the call returns.
C6_FirstAttemptSuccess ==
  (Answered >= 1 /\ Succeeded(call.transport[1])) =>
    /\ Attempts = 1
    /\ call.delays = <<>>
    /\ "wait" \notin {call.trace[i] : i \in 1 .. Len(call.trace)}
    /\ call.pc \in {"json", "returned"}

C6_Witness ==
  /\ call.pc = "returned"
  /\ Answered = 1
  /\ Succeeded(call.transport[1])
  /\ call.maxRetries = 5

\* C7: j transport failures followed by a success on attempt j + 1 give
\* exactly j + 1 attempts, exactly j waits (initialBackoffMs, doubled each
\* time, each between two consecutive attempts) and the decoded payload of
\* attempt j + 1 as the result.
C7_FailuresThenSuccess ==
  \A j \in 0 .. call.maxRetries :
    FailedThenSucceeded(j) =>
      /\ Attempts = j + 1
      /\ call.delays = DoublingDelays(j)
      /\ WaitsOnlyBetweenAttempts
      /\ call.pc \in {"json", "returned"}
      /\ call.pc = "returned" =>
           /\ call.value = JsonParse(call.transport[j + 1].body)
           /\ call.value # NoValue

C7_Witness ==
  /\ call.maxRetries = 2
  /\ call.initialBackoffMs = 100
  /\ FailedThenSucceeded(2)
  /\ call.pc = "returned"
  /\ Attempts = 3
  /\ call.delays = <<100, 200>>
  /\ call.value = [v |-> 2]

\* C8: an answer with a non-success status is treated like a transport error:
\* with budget left a wait and a further attempt follow, without budget the
\* call throws, and the body of that answer is never decoded or returned.
C8_NonSuccessStatusIsRetryable ==
  \A k \in 1 .. Answered :
    (~call.transport[k].net /\ TransportFailed(call.transport[k])) =>
      /\ \A i \in 1 .. Len(call.decoded) : call.decoded[i] # k
      /\ ~(call.pc = "returned" /\ Attempts = k)
      /\ k <= call.maxRetries =>
           /\ Len(call.delays) >= k
           /\ (call.pc # "timer" \/ Attempts > k) => Attempts >= k + 1
      /\ k = call.maxRetries + 1 =>
           /\ call.pc = "thrown"
           /\ call.error.name = "Error"

C8_Witness ==
  /\ Answered = 2
  /\ ~call.transport[1].net /\ call.transport[1].status = 503
  /\ call.transport[1].body = "{\"v\":1}"
  /\ Succeeded(call.transport[2])
  /\ call.pc = "returned"
  /\ call.value = [v |-> 2]

\* C9: a wait happens only between a failed attempt and the next attempt:
\* none before the first attempt, none after the last failed one; with
\* maxRetries = 0 and a failing transport there is one attempt, the failure
\* is raised and no wait occurs.
C9_WaitsOnlyBetweenAttempts ==
  /\ WaitsOnlyBetweenAttempts
  /\ call.pc \in {"returned", "thrown"} => call.trace[Len(call.trace) - 1] # "wait"
  /\ call.pc = "thrown" => Len(call.delays) = Attempts - 1
  /\ (call.maxRetries = 0 /\ Answered = 1 /\ TransportFailed(call.transport[1])) =>
       /\ call.pc = "thrown"
       /\ Attempts = 1
       /\ call.delays = <<>>

C9_Witness ==
  /\ call.maxRetries = 0
  /\ call.pc = "thrown"
  /\ Attempts = 1
  /\ TransportFailed(call.transport[1])

\* C10: when the budget is exhausted the caller receives the error raised by
\* the last attempt made, not an earlier one and not a new value.
C10_TerminalErrorIsLastError ==
  call.pc = "thrown" =>
    /\ Answered = Attempts
    /\ call.error = ErrorOf(call.transport[Attempts], Attempts)

C10_Witness ==
  /\ call.pc = "thrown"
  /\ Attempts = 3
  /\ call.transport[1].net
  /\ ~call.transport[3].net /\ call.transport[3].status = 503
  /\ call.error = [name |-> "Error", message |-> "HTTP 503", attempt |-> 3]


\* C11: a logical call ends in exactly one of two ways: it returns the
\* payload decoded from the successful last attempt of that call, or it
\* raises the failure of its last attempt; it never returns after a failed
\* last attempt and never completes without a value or an error.
C11_ReturnsPayloadOrRaises ==
  /\ call.pc = "returned" =>
       /\ Answered = Attempts
       /\ Succeeded(call.transport[Attempts])
       /\ call.value = JsonParse(call.transport[Attempts].body)
       /\ call.value # NoValue
       /\ call.error = NoError
  /\ call.pc = "thrown" =>
       /\ Answered = Attempts
       /\ ~Succeeded(call.transport[Attempts])
       /\ call.error # NoError
       /\ call.value = NoValue
  /\ call.pc \notin {"returned", "thrown"} =>
       /\ call.value = NoValue
       /\ call.error = NoError

C11_Witness ==
  /\ call.pc = "returned"
  /\ Attempts = 3
  /\ call.transport[1].body = "{\"v\":1}"
  /\ call.transport[2].net
  /\ call.value = [v |-> 2]

\* C12: at most one fetch of a logical call is in flight, and attempt k + 1
\* is issued only when attempt k has failed and the timer set after it has
\* fired.
C12_OneAttemptInFlight ==
  [][/\ Len(call'.fetches) - Len(call'.transport) \in {0, 1}
     /\ (Attempts >= 1 /\ Len(call'.fetches) > Attempts) =>
          /\ call.pc = "timer"
          /\ Answered = Attempts
          /\ ~Succeeded(call.transport[Attempts])
          /\ Len(call.delays) = Attempts
          /\ Len(call'.fetches) = Attempts + 1]_vars

C12_Witness ==
  /\ call.pc = "fetch"
  /\ Attempts = 3
  /\ Answered = 2
  /\ Len(call.delays) = 2

\* C14: every logical call terminates: when fetches settle and timers fire,
\* a call that has started eventually returns or throws.
C14_CallTerminates ==
  (call.pc \notin {"idle", "returned", "thrown"}) ~> (call.pc \in {"returned", "thrown"})

C14_Witness ==
  /\ call.pc = "thrown"
  /\ call.maxRetries = 5
  /\ Attempts = 6

\* C15: after f failed attempts the frame's budget is maxRetries - f and its
\* backoff is initialBackoffMs * 2^f; a failed attempt with budget > 0 is
\* followed by a wait of the current backoff and then by a retry with the
\* budget one lower and the backoff doubled; the budget is never negative.
C15_BudgetAndBackoff ==
  [][/\ call'.pc # "idle" =>
          /\ call'.retries = call'.maxRetries - (Len(call'.fetches) - 1)
          /\ call'.backoff = call'.initialBackoffMs * Pow2(Len(call'.fetches) - 1)
          /\ call'.retries >= 0
     /\ (call.pc \in {"fetch", "json"} /\ call'.pc \notin {"json", "returned"}) =>
          IF call.retries > 0
          THEN /\ call'.pc = "timer"
               /\ call'.delays = Append(call.delays, call.backoff)
               /\ call'.retries = call.retries /\ call'.backoff = call.backoff
          ELSE call'.pc = "thrown" /\ call'.delays = call.delays
     /\ call.pc = "timer" =>
          /\ call'.pc = "fetch"
          /\ call'.retries = call.retries - 1
          /\ call'.backoff = 2 * call.backoff
          /\ call'.delays = call.delays]_vars

C15_Witness ==
  /\ call.pc = "fetch"
  /\ call.maxRetries = 5
  /\ call.initialBackoffMs = 100
  /\ Attempts = 4
  /\ call.retries = 2
  /\ call.backoff = 800

\* C17: a call that leaves out retries and backoff runs with maxRetries = 5
\* and an initial backoff of 1000 ms: against a permanently failing endpoint
\* it makes exactly 6 requests separated by waits of 1000, 2000, 4000, 8000
\* and 16000 ms and then reports the failure.
C17_Defaults ==
  (call.pc # "idle" /\ call.args = [retries |-> Undefined, backoff |-> Undefined]) =>
    /\ call.maxRetries = 5
    /\ call.initialBackoffMs = 1000
    /\ Attempts = 1 => (call.retries = 5 /\ call.backoff = 1000)
    /\ AllFailed =>
         /\ call.pc # "returned"
         /\ call.pc = "thrown" <=> Answered = 6
         /\ call.pc = "thrown" =>
              /\ Attempts = 6
              /\ call.delays = <<1000, 2000, 4000, 8000, 16000>>

C17_Witness ==
  /\ call.args = [retries |-> Undefined, backoff |-> Undefined]
  /\ call.pc = "thrown"
  /\ AllFailed
  /\ Attempts = 6
  /\ call.delays = <<1000, 2000, 4000, 8000, 16000>>

\* the state a call is in right after the transport has given `answers`, in
\* this order, to a call running alone from the state c (c awaits a fetch)
RECURSIVE AloneAfter(_, _)
AloneAfter(c, answers) ==
  IF answers = <<>> THEN c
  ELSE LET o == Head(answers)
           d == IF o.net THEN OnFetchRejected(c) ELSE OnFetchResolved(c, o)
           e == IF d.pc = "json" THEN OnJsonSettled(d) ELSE d
           f == IF e.pc = "timer" THEN Retry(e) ELSE e
       IN IF Len(answers) = 1 THEN d ELSE AloneAfter(f, Tail(answers))

\* the states a call running alone passes through once it has received
\* `answers` and before it receives a further one
AloneStates(req, args, answers) ==
  LET a == AloneAfter(Invoke(req, args.retries, args.backoff), answers)
      j == IF a.pc = "json" THEN OnJsonSettled(a) ELSE a
      t == IF j.pc = "timer" THEN Retry(j) ELSE j
  IN IF answers = <<>> THEN {a} ELSE {a, j, t}

AsIfAlone(c) ==
  c.pc # "idle" => c \in AloneStates(c.request, c.args, c.transport)

\* C13: two logical calls that run concurrently, in any interleaving, or one
\* after the other do not affect each other: each call is in a state it would
\* also reach alone with its own arguments and its own answers (same
\* attempts, delays and outcome), a step of one call leaves the other
\* untouched, and a call that follows an ended call starts with the full
\* budget and the initial backoff.
C13_CallsAreIndependent ==
  [][/\ AsIfAlone(call') /\ AsIfAlone(peer')
     /\ call' # call => peer' = peer
     /\ peer' # peer => call' = call
     /\ (call.pc \in {"returned", "thrown"} /\ call'.pc = "fetch") =>
          /\ call'.retries = call'.maxRetries
          /\ call'.backoff = call'.initialBackoffMs
          /\ Len(call'.fetches) = 1 /\ call'.delays = <<>>
     /\ (peer.pc \in {"returned", "thrown"} /\ peer'.pc = "fetch") =>
          /\ peer'.retries = peer'.maxRetries
          /\ peer'.backoff = peer'.initialBackoffMs
          /\ Len(peer'.fetches) = 1 /\ peer'.delays = <<>>]_vars

\* both calls are retrying at once, with different backoffs
C13_Witness ==
  /\ call.pc = "fetch" /\ Len(call.fetches) = 2 /\ call.delays = <<100>>
  /\ peer.pc = "fetch" /\ Len(peer.fetches) = 2 /\ peer.delays = <<1000>>
  /\ call.transport[1].net /\ ~peer.transport[1].net

\* C16: every request to the inference endpoint goes through fetchWithRetry:
\* in no variant does analyzeImage or generateMorph have a fetch of its own
\* under way.
C16_OnlyThroughFetchWithRetry == app.direct.pc = "idle"

InFlight(c) == c.pc \in {"fetch", "json", "timer"}

\* C18: the value fetchWithRetry returns is the decoded body of the answer it
\* has just received, untransformed, and nothing of the component changes at
\* that step; analysisResult and morphUrl are set only when the caller
\* resumes from a returned call, as the unwrapping of the returned value.
C18_ReturnsDecodedBodyAsIs ==
  [][app.variant = "part_000" =>
       /\ (call.pc = "json" /\ call'.pc = "returned") =>
            call'.value = JsonParse(call.res.body) /\ app' = app
       /\ (peer.pc = "json" /\ peer'.pc = "returned") =>
            peer'.value = JsonParse(peer.res.body) /\ app' = app
       /\ (app'.analysisResult # app.analysisResult /\ app'.analysisResult # Null) =>
            /\ call.pc = "returned" /\ call'.pc = "idle"
            /\ app'.analysisResult = ParsedResult(RawText(call.value))
       /\ (app'.morphUrl # app.morphUrl /\ app'.morphUrl # Null) =>
            /\ peer.pc = "returned" /\ peer'.pc = "idle"
            /\ app'.morphUrl = MorphDataUrl(InlineData(peer.value))]_vars

\* both callers have unwrapped a returned payload
C18_Witness ==
  /\ app.variant = "part_000"
  /\ app.analysisResult = "auraScore:750"
  /\ app.morphUrl = "data:image/png;base64,iVBORw0KGgo"

\* the caller finds the payload a returned call carries malformed
Malformed(c) ==
  /\ c.pc = "returned"
  /\ IF c.request = AnalyzeRequest
     THEN RawText(c.value) = "undefined" \/ ParsedResult(RawText(c.value)) = Null
     ELSE InlineData(c.value) = "undefined"

\* C19: when a call made by analyzeImage or generateMorph fails (it has
\* thrown after its last attempt, or it has returned a payload the caller
\* cannot unwrap), the caller sets error to its one fixed message, whatever
\* the error, the status and the number of attempts were, clears its busy
\* flag and leaves analysisResult and morphUrl as they are.
C19_FailureShowsFixedMessage ==
  [][/\ (call.pc = "thrown" \/ Malformed(call)) /\ call'.pc = "idle" =>
          /\ app'.error = "AI Engine busy. Please retry."
          /\ ~app'.isAnalyzing
          /\ app'.analysisResult = app.analysisResult
          /\ app'.morphUrl = app.morphUrl
     /\ (peer.pc = "thrown" \/ Malformed(peer)) /\ peer'.pc = "idle" =>
          /\ app'.error = "Identity Engine busy."
          /\ ~app'.isMorphing
          /\ app'.analysisResult = app.analysisResult
          /\ app'.morphUrl = app.morphUrl]_vars

\* a failed generateMorph has left its message, the analysis result is kept
C19_Witness ==
  /\ app.error = "Identity Engine busy."
  /\ app.analysisResult # Null /\ app.morphUrl = Null
  /\ peer.pc = "idle" /\ ~app.isMorphing

\* a step of a call that is under way: the next stage of the same attempt, a
\* further attempt after the wait, or the end, which is an error only when no
\* retry is left
Proceeds(c, next) ==
  \/ c.pc = "fetch" /\ next.pc = "json"
  \/ c.pc \in {"fetch", "json"} /\ next.pc = "timer" /\ c.retries > 0
  \/ c.pc \in {"fetch", "json"} /\ next.pc = "thrown" /\ c.retries = 0
  \/ c.pc = "json" /\ next.pc = "returned"
  \/ /\ c.pc = "timer" /\ next.pc = "fetch"
     /\ next.retries = c.retries - 1
     /\ Len(next.fetches) = Len(c.fetches) + 1

\* C20: a call that analyzeImage or generateMorph has started cannot be
\* cancelled: while it is under way, a step either leaves it as it is or
\* takes it one stage further, it is never dropped, every event that changes
\* the component (reset, tab switch, login and logout, the camera, an upload)
\* leaves it untouched, and it ends with an error only when no retry is left.
C20_NoCancellation ==
  [][/\ InFlight(call) =>
          /\ call' = call \/ Proceeds(call, call')
          /\ app' # app => call' = call
     /\ InFlight(peer) =>
          /\ peer' = peer \/ Proceeds(peer, peer')
          /\ app' # app => peer' = peer]_vars

\* the session was reset and the tab left while analyzeImage was waiting;
\* the call has gone on to its last attempt
C20_Witness ==
  /\ app.isAnalyzing /\ app.image = Null /\ app.activeTab # "vision"
  /\ call.pc = "fetch" /\ call.retries = 0 /\ Len(call.fetches) = DefaultRetries + 1

\* C21: analysisResult is non-null only if image is non-null: the result of
\* a request that was pending when the session was reset is not stored into
\* the new session.
C21_ResultOnlyWithImage == app.analysisResult # Null => app.image # Null

\* C22: at most one media stream is live: every stream getUserMedia has
\* returned is the one held in streamRef or has had its tracks stopped.
C22_AtMostOneLiveStream ==
  app.liveStreams = IF app.streamRef # Null THEN 1 ELSE 0

\* C23: whenever activeTab is not 'vision' (the effect of the tab change has
\* run), isCameraActive is false and streamRef holds no stream.
C23_CameraOffOutsideVision ==
  app.activeTab # "vision" => ~app.isCameraActive /\ app.streamRef = Null

\* C24: the lead capture modal is rendered only while analysisResult is
\* non-null.
C24_ModalOnlyWithResult == LeadModalOpen(app) => app.analysisResult # Null

\* C25: for one analysis result at most one lead document is written, and
\* no saveLead is started while an earlier one of the session is pending.
C25_AtMostOneLeadDocument == app.leadDocs <= 1 /\ app.savesPending <= 1

\* C26: leadSubmitted becomes true only when an addDoc started in the
\* current session completes with its document written; a failed addDoc
\* leaves leadSubmitted as it is and sets the error; while the guard of
\* saveLead fails no addDoc is started and isSavingLead is not set.
C26_SubmittedOnlyAfterOwnWrite ==
  [][/\ (~app.leadSubmitted /\ app'.leadSubmitted) =>
          /\ app.savesPending > 0
          /\ app'.savesPending = app.savesPending - 1
          /\ app'.leadDocs = app.leadDocs + 1
     /\ ( /\ app'.savesPending = app.savesPending - 1
          /\ app'.staleSaves = app.staleSaves
          /\ app'.leadDocs = app.leadDocs ) =>
          /\ app'.leadSubmitted = app.leadSubmitted
          /\ app'.error = AddDocErrorMessage(app)
     /\ ~saveLeadGuard(app) =>
          /\ app'.savesPending <= app.savesPending
          /\ app'.isSavingLead => app.isSavingLead]_vars

\* the Lead Manager with the lead list and the pipeline totals is on screen
LeadManagerShown(a) ==
  /\ a.activeTab = "enterprise"
  /\ a.variant = "part_000" => a.isLoggedIn

\* C27: the Lead Manager is on screen only while isLoggedIn is true; in
\* particular not after Logout, until a key is accepted again.
C27_LeadManagerOnlyWhenLoggedIn == LeadManagerShown(app) => app.isLoggedIn

\* after a login and a logout in part_000 the tab is still 'enterprise'
C27_Witness ==
  /\ ~app.isLoggedIn /\ app.activeTab = "enterprise"
  /\ app.loginKey = "aura-2026"

\* C28: isLoggedIn turns true only in a step taken with the login modal
\* open and a key typed in whose upper-cased value is the provider key; the
\* Authenticate step that rejects a key leaves isLoggedIn, showLogin and
\* activeTab as they are.
C28_LoginOnlyWithProviderKey ==
  [][/\ (~app.isLoggedIn /\ app'.isLoggedIn) =>
          /\ app.showLogin
          /\ toUpperCase(app.loginKey) = DEMO_PROVIDER_KEY
          /\ app'.loginKey = app.loginKey
     /\ (app.showLogin /\ toUpperCase(app.loginKey) # DEMO_PROVIDER_KEY
         /\ app'.loginKey = app.loginKey) =>
          app'.isLoggedIn = app.isLoggedIn
     /\ app'.loginError # app.loginError =>
          /\ app'.isLoggedIn = app.isLoggedIn
          /\ app'.showLogin = app.showLogin
          /\ app'.activeTab = app.activeTab]_vars

\* a key was rejected, then the provider key in lower case was accepted
C28_Witness ==
  /\ app.isLoggedIn /\ ~app.showLogin /\ app.activeTab = "enterprise"
  /\ app.loginKey = "aura-2026" /\ app.loginError = "Invalid"

\* C29: every busy flag is cleared again: isAnalyzing, isMorphing and
\* isSavingLead, once set, are false again after the call behind them has
\* ended, with a result or with an error.
C29_BusyFlagsAreCleared ==
  /\ app.isAnalyzing ~> ~app.isAnalyzing
  /\ app.isMorphing ~> ~app.isMorphing
  /\ app.isSavingLead ~> ~app.isSavingLead

\* a failed addDoc has left its message and the flag is cleared
C29_Witness ==
  /\ app.error = AddDocErrorMessage(app) /\ ~app.isSavingLead
  /\ app.savesPending = 0 /\ ~app.leadSubmitted /\ LeadModalOpen(app)

====
